---- MODULE Spec2Model ----
(***************************************************************************)
(* Model of server/main.py: the bootstrap main() of the web application.   *)
(* Each process runs the module import (line 4) and then main() (lines     *)
(* 6-17) one statement at a time.  The operating system's table of         *)
(* listening sockets is shared by all processes.                           *)
(***************************************************************************)
EXTENDS Integers, Sequences, FiniteSets, TLC

(* ---- bounds ---- *)
NumProcs == 2
NumPorts == 2

Procs == 1..NumProcs
Ports == 1..NumPorts

(* ---- values ---- *)
NoRef == 0
NotExited == -1
ExitOk == 0
ExitUncaught == 1
ExitSoftware == 70
ExitKilled == 137

DefaultHost == "127.0.0.1"
AnyHost == "0.0.0.0"

\* The contents SETTINGS can have once the settings module is imported.
SettingsChoices ==
    { [server |-> [app_config |-> "sectioned"]],
      [server |-> [app_config |-> "flat"]],
      [server |-> [socket_port |-> "unused"]],
      [site |-> [app_config |-> "sectioned"]] }

Unloaded == [unloaded |-> [unloaded |-> "unloaded"]]

HasKey(m, k) == k \in DOMAIN m

\* SETTINGS["server"]["app_config"] evaluates without KeyError
HasAppConfig(s) == HasKey(s, "server") /\ HasKey(s["server"], "app_config")

\* The steps of one run, in program order.
Order == << "load_settings", "config_update", "construct_root",
            "construct_portfolio", "attach", "mount", "start", "block" >>

Steps == { Order[i] : i \in 1..Len(Order) }

VARIABLES
    pc,          \* position of each process
    settingsSrc, \* what the settings module of the process will load
    SETTINGS,    \* the imported SETTINGS mapping
    config,      \* cherrypy.config: socket_host, socket_port
    heap,        \* objects of the process: sequence of [cls, portfolio]
    app,         \* local variable app of main()
    tmp,         \* value of the expression Portfolio() before it is assigned
    tree,        \* cherrypy.tree: sequence of mounted applications
    engine,      \* state of cherrypy.engine
    listeners,   \* listening sockets held, over all processes
    error,       \* exception that left main(), or "None"
    exitCode,    \* exit status of the process, NotExited while it runs
    stopped,     \* the process was stopped from outside
    done,        \* steps completed, in order of completion
    attempts     \* number of times each step was entered

vars == << pc, settingsSrc, SETTINGS, config, heap, app, tmp, tree, engine,
           listeners, error, exitCode, stopped, done, attempts >>

Init ==
    /\ pc = [p \in Procs |-> "import"]
    /\ settingsSrc \in [Procs -> SettingsChoices]
    /\ SETTINGS = [p \in Procs |-> Unloaded]
    /\ \E pt \in [Procs -> Ports] :
          config = [p \in Procs |-> [socket_host |-> DefaultHost, socket_port |-> pt[p]]]
    /\ heap = [p \in Procs |-> << >>]
    /\ app = [p \in Procs |-> NoRef]
    /\ tmp = [p \in Procs |-> NoRef]
    /\ tree = [p \in Procs |-> << >>]
    /\ engine = [p \in Procs |-> "STOPPED"]
    /\ listeners = {}
    /\ error = [p \in Procs |-> "None"]
    /\ exitCode = [p \in Procs |-> NotExited]
    /\ stopped = [p \in Procs |-> FALSE]
    /\ done = [p \in Procs |-> << >>]
    /\ attempts = [p \in Procs |-> [s \in Steps |-> 0]]

Enter(p, s) == [attempts EXCEPT ![p][s] = @ + 1]
Complete(p, s) == [done EXCEPT ![p] = Append(@, s)]

\* An exception leaves main() uncaught: the process ends.
Raise(p, e, code) ==
    /\ pc' = [pc EXCEPT ![p] = "failed"]
    /\ error' = [error EXCEPT ![p] = e]
    /\ exitCode' = [exitCode EXCEPT ![p] = code]

\* Mutant: main() goes on to construct Root without updating the configuration.
Import_SkipConfig(p) ==
    /\ pc[p] = "import"
    /\ SETTINGS' = [SETTINGS EXCEPT ![p] = settingsSrc[p]]
    /\ pc' = [pc EXCEPT ![p] = "root"]
    /\ attempts' = Enter(p, "load_settings")
    /\ done' = Complete(p, "load_settings")
    /\ UNCHANGED << settingsSrc, config, heap, app, tmp, tree, engine,
                    listeners, error, exitCode, stopped >>

\* line 4: from .settings import SETTINGS
Import(p) ==
    /\ pc[p] = "import"
    /\ SETTINGS' = [SETTINGS EXCEPT ![p] = settingsSrc[p]]
    /\ pc' = [pc EXCEPT ![p] = "config"]
    /\ attempts' = Enter(p, "load_settings")
    /\ done' = Complete(p, "load_settings")
    /\ UNCHANGED << settingsSrc, config, heap, app, tmp, tree, engine,
                    listeners, error, exitCode, stopped >>

\* lines 7-9: cherrypy.config.update({'server.socket_host': '0.0.0.0'})
ConfigUpdate(p) ==
    /\ pc[p] = "config"
    /\ config' = [config EXCEPT ![p].socket_host = AnyHost]
    /\ pc' = [pc EXCEPT ![p] = "root"]
    /\ attempts' = Enter(p, "config_update")
    /\ done' = Complete(p, "config_update")
    /\ UNCHANGED << settingsSrc, SETTINGS, heap, app, tmp, tree, engine,
                    listeners, error, exitCode, stopped >>

\* Root(): a new object whose portfolio slot is not set
NewRoot == [cls |-> "Root", portfolio |-> NoRef]

\* Portfolio(): a new object
NewPortfolio == [cls |-> "Portfolio", portfolio |-> NoRef]

\* line 11: app = Root()
ConstructRoot(p) ==
    /\ pc[p] = "root"
    /\ heap' = [heap EXCEPT ![p] = Append(@, NewRoot)]
    /\ app' = [app EXCEPT ![p] = Len(heap[p]) + 1]
    /\ pc' = [pc EXCEPT ![p] = "portfolio"]
    /\ attempts' = Enter(p, "construct_root")
    /\ done' = Complete(p, "construct_root")
    /\ UNCHANGED << settingsSrc, SETTINGS, config, tmp, tree, engine,
                    listeners, error, exitCode, stopped >>

\* line 12, right-hand side: Portfolio()
ConstructPortfolio(p) ==
    /\ pc[p] = "portfolio"
    /\ heap' = [heap EXCEPT ![p] = Append(@, NewPortfolio)]
    /\ tmp' = [tmp EXCEPT ![p] = Len(heap[p]) + 1]
    /\ pc' = [pc EXCEPT ![p] = "attach"]
    /\ attempts' = Enter(p, "construct_portfolio")
    /\ done' = Complete(p, "construct_portfolio")
    /\ UNCHANGED << settingsSrc, SETTINGS, config, app, tree, engine,
                    listeners, error, exitCode, stopped >>


\* Mutant: the assignment of line 12 is lost; the slot stays unset.
AttachPortfolio_Skip(p) ==
    /\ pc[p] = "attach"
    /\ tmp' = [tmp EXCEPT ![p] = NoRef]
    /\ pc' = [pc EXCEPT ![p] = "mount"]
    /\ attempts' = Enter(p, "attach")
    /\ done' = Complete(p, "attach")
    /\ UNCHANGED << settingsSrc, SETTINGS, config, heap, app, tree, engine,
                    listeners, error, exitCode, stopped >>

\* Mutant: app.portfolio = app
AttachPortfolio_Self(p) ==
    /\ pc[p] = "attach"
    /\ heap' = [heap EXCEPT ![p][app[p]].portfolio = app[p]]
    /\ tmp' = [tmp EXCEPT ![p] = NoRef]
    /\ pc' = [pc EXCEPT ![p] = "mount"]
    /\ attempts' = Enter(p, "attach")
    /\ done' = Complete(p, "attach")
    /\ UNCHANGED << settingsSrc, SETTINGS, config, app, tree, engine,
                    listeners, error, exitCode, stopped >>

\* line 12, assignment: app.portfolio = <the new Portfolio>
AttachPortfolio(p) ==
    /\ pc[p] = "attach"
    /\ heap' = [heap EXCEPT ![p][app[p]].portfolio = tmp[p]]
    /\ tmp' = [tmp EXCEPT ![p] = NoRef]
    /\ pc' = [pc EXCEPT ![p] = "mount"]
    /\ attempts' = Enter(p, "attach")
    /\ done' = Complete(p, "attach")
    /\ UNCHANGED << settingsSrc, SETTINGS, config, app, tree, engine,
                    listeners, error, exitCode, stopped >>

\* The application cherrypy.tree.mount(root, script_name, config) registers.
Mounted(root, script_name, cfg) ==
    [root |-> root, script_name |-> script_name, config |-> cfg]

\* Mutant: a missing key is replaced by a default configuration.
Mount_DefaultConfig(p) ==
    /\ pc[p] = "mount"
    /\ attempts' = Enter(p, "mount")
    /\ IF HasAppConfig(SETTINGS[p]) /\ SETTINGS[p]["server"]["app_config"] # "sectioned"
       THEN /\ Raise(p, "ValueError", ExitUncaught)
            /\ UNCHANGED << tree, done >>
       ELSE /\ tree' = [tree EXCEPT ![p] = Append(@, Mounted(app[p], "/", "sectioned"))]
            /\ pc' = [pc EXCEPT ![p] = "start"]
            /\ done' = Complete(p, "mount")
            /\ UNCHANGED << error, exitCode >>
    /\ UNCHANGED << settingsSrc, SETTINGS, config, heap, app, tmp, engine,
                    listeners, stopped >>

\* Mutant: the handler tree is mounted a second time.
Mount_Twice(p) ==
    /\ pc[p] = "mount"
    /\ attempts' = Enter(p, "mount")
    /\ IF ~HasAppConfig(SETTINGS[p])
       THEN /\ Raise(p, "KeyError", ExitUncaught)
            /\ UNCHANGED << tree, done >>
       ELSE IF SETTINGS[p]["server"]["app_config"] # "sectioned"
       THEN /\ Raise(p, "ValueError", ExitUncaught)
            /\ UNCHANGED << tree, done >>
       ELSE /\ tree' = [tree EXCEPT ![p] =
                          Append(Append(@, Mounted(app[p], "/", SETTINGS[p]["server"]["app_config"])),
                                 Mounted(app[p], "/", SETTINGS[p]["server"]["app_config"]))]
            /\ pc' = [pc EXCEPT ![p] = "start"]
            /\ done' = Complete(p, "mount")
            /\ UNCHANGED << error, exitCode >>
    /\ UNCHANGED << settingsSrc, SETTINGS, config, heap, app, tmp, engine,
                    listeners, stopped >>

\* Mutant: mounting resets the portfolio slot of the mounted object.
Mount_ClearsSlot(p) ==
    /\ pc[p] = "mount"
    /\ attempts' = Enter(p, "mount")
    /\ IF ~HasAppConfig(SETTINGS[p])
       THEN /\ Raise(p, "KeyError", ExitUncaught)
            /\ UNCHANGED << tree, done, heap >>
       ELSE IF SETTINGS[p]["server"]["app_config"] # "sectioned"
       THEN /\ Raise(p, "ValueError", ExitUncaught)
            /\ UNCHANGED << tree, done, heap >>
       ELSE /\ tree' = [tree EXCEPT ![p] =
                          Append(@, Mounted(app[p], "/", SETTINGS[p]["server"]["app_config"]))]
            /\ heap' = [heap EXCEPT ![p][app[p]].portfolio = NoRef]
            /\ pc' = [pc EXCEPT ![p] = "start"]
            /\ done' = Complete(p, "mount")
            /\ UNCHANGED << error, exitCode >>
    /\ UNCHANGED << settingsSrc, SETTINGS, config, app, tmp, engine,
                    listeners, stopped >>

\* line 14: cherrypy.tree.mount(app, '/', SETTINGS["server"]["app_config"])
\* The arguments are evaluated first: a missing key raises KeyError before
\* mount is called.  mount raises ValueError for a configuration without
\* section headers, before the application is registered.
Mount(p) ==
    /\ pc[p] = "mount"
    /\ attempts' = Enter(p, "mount")
    /\ IF ~HasAppConfig(SETTINGS[p])
       THEN /\ Raise(p, "KeyError", ExitUncaught)
            /\ UNCHANGED << tree, done >>
       ELSE IF SETTINGS[p]["server"]["app_config"] # "sectioned"
       THEN /\ Raise(p, "ValueError", ExitUncaught)
            /\ UNCHANGED << tree, done >>
       ELSE /\ tree' = [tree EXCEPT ![p] =
                          Append(@, Mounted(app[p], "/", SETTINGS[p]["server"]["app_config"]))]
            /\ pc' = [pc EXCEPT ![p] = "start"]
            /\ done' = Complete(p, "mount")
            /\ UNCHANGED << error, exitCode >>
    /\ UNCHANGED << settingsSrc, SETTINGS, config, heap, app, tmp, engine,
                    listeners, stopped >>

\* The address the engine binds: (server.socket_host, server.socket_port)
BindAddr(p) == [host |-> config[p].socket_host, port |-> config[p].socket_port]

\* Two listening addresses cannot be held together.
Conflicts(a, b) ==
    /\ a.port = b.port
    /\ (a.host = b.host \/ a.host = AnyHost \/ b.host = AnyHost)

\* The address of p is held by a listener of another process.
PortInUse(p) == \E l \in listeners : l.proc # p /\ Conflicts(l, BindAddr(p))

Listener(p) == [proc |-> p, host |-> BindAddr(p).host, port |-> BindAddr(p).port]

\* Exit status after a failed engine start: the engine may end the process
\* itself, otherwise the uncaught exception does.
StartFailureCodes == { ExitUncaught, ExitSoftware }

\* Mutant: the error of engine.start() is swallowed and main() goes on.
EngineStart_Swallow(p) ==
    /\ pc[p] = "start"
    /\ attempts' = Enter(p, "start")
    /\ IF PortInUse(p)
       THEN /\ engine' = [engine EXCEPT ![p] = "EXITING"]
            /\ error' = [error EXCEPT ![p] = "BindError"]
            /\ pc' = [pc EXCEPT ![p] = "block"]
            /\ UNCHANGED << listeners, done, exitCode >>
       ELSE /\ listeners' = listeners \cup { Listener(p) }
            /\ engine' = [engine EXCEPT ![p] = "STARTED"]
            /\ pc' = [pc EXCEPT ![p] = "block"]
            /\ done' = Complete(p, "start")
            /\ UNCHANGED << error, exitCode >>
    /\ UNCHANGED << settingsSrc, SETTINGS, config, heap, app, tmp, tree, stopped >>

\* Mutant: a failed engine.start() is tried again.
EngineStart_Retry(p) ==
    /\ pc[p] = "start"
    /\ attempts[p]["start"] < 3
    /\ attempts' = Enter(p, "start")
    /\ IF PortInUse(p)
       THEN /\ UNCHANGED << engine, error, pc, listeners, done, exitCode >>
       ELSE /\ listeners' = listeners \cup { Listener(p) }
            /\ engine' = [engine EXCEPT ![p] = "STARTED"]
            /\ pc' = [pc EXCEPT ![p] = "block"]
            /\ done' = Complete(p, "start")
            /\ UNCHANGED << error, exitCode >>
    /\ UNCHANGED << settingsSrc, SETTINGS, config, heap, app, tmp, tree, stopped >>

\* Mutant: the listener is opened without regard to the address being held.
EngineStart_NoBindCheck(p) ==
    /\ pc[p] = "start"
    /\ attempts' = Enter(p, "start")
    /\ listeners' = listeners \cup { Listener(p) }
    /\ engine' = [engine EXCEPT ![p] = "STARTED"]
    /\ pc' = [pc EXCEPT ![p] = "block"]
    /\ done' = Complete(p, "start")
    /\ UNCHANGED << error, exitCode >>
    /\ UNCHANGED << settingsSrc, SETTINGS, config, heap, app, tmp, tree, stopped >>

\* line 16: cherrypy.engine.start()
\* Binds the listener; when the address is held the engine shuts down and
\* the error leaves main().
EngineStart(p) ==
    /\ pc[p] = "start"
    /\ attempts' = Enter(p, "start")
    /\ IF PortInUse(p)
       THEN /\ engine' = [engine EXCEPT ![p] = "EXITING"]
            /\ \E code \in StartFailureCodes : Raise(p, "BindError", code)
            /\ UNCHANGED << listeners, done >>
       ELSE /\ listeners' = listeners \cup { Listener(p) }
            /\ engine' = [engine EXCEPT ![p] = "STARTED"]
            /\ pc' = [pc EXCEPT ![p] = "block"]
            /\ done' = Complete(p, "start")
            /\ UNCHANGED << error, exitCode >>
    /\ UNCHANGED << settingsSrc, SETTINGS, config, heap, app, tmp, tree, stopped >>

\* Mutant: engine.block() does not wait.
EnterBlock_Return(p) ==
    /\ pc[p] = "block"
    /\ pc' = [pc EXCEPT ![p] = "returned"]
    /\ exitCode' = [exitCode EXCEPT ![p] = ExitOk]
    /\ attempts' = Enter(p, "block")
    /\ done' = Complete(p, "block")
    /\ UNCHANGED << settingsSrc, SETTINGS, config, heap, app, tmp, tree, engine,
                    listeners, error, stopped >>

\* line 17: cherrypy.engine.block(), the calling thread starts to wait
EnterBlock(p) ==
    /\ pc[p] = "block"
    /\ pc' = [pc EXCEPT ![p] = "blocking"]
    /\ attempts' = Enter(p, "block")
    /\ done' = Complete(p, "block")
    /\ UNCHANGED << settingsSrc, SETTINGS, config, heap, app, tmp, tree, engine,
                    listeners, error, exitCode, stopped >>

\* The waiting process is interrupted from outside: the engine exits and
\* gives up its listener.
Interrupt(p) ==
    /\ pc[p] = "blocking"
    /\ engine[p] = "STARTED"
    /\ engine' = [engine EXCEPT ![p] = "EXITING"]
    /\ listeners' = { l \in listeners : l.proc # p }
    /\ stopped' = [stopped EXCEPT ![p] = TRUE]
    /\ UNCHANGED << pc, settingsSrc, SETTINGS, config, heap, app, tmp, tree,
                    error, exitCode, done, attempts >>

\* line 17: engine.block() returns once the engine is exiting
BlockReturn(p) ==
    /\ pc[p] = "blocking"
    /\ engine[p] = "EXITING"
    /\ pc' = [pc EXCEPT ![p] = "returned"]
    /\ exitCode' = [exitCode EXCEPT ![p] = ExitOk]
    /\ UNCHANGED << settingsSrc, SETTINGS, config, heap, app, tmp, tree, engine,
                    listeners, error, stopped, done, attempts >>

\* The waiting process is killed from outside.
Kill(p) ==
    /\ pc[p] = "blocking"
    /\ pc' = [pc EXCEPT ![p] = "killed"]
    /\ exitCode' = [exitCode EXCEPT ![p] = ExitKilled]
    /\ listeners' = { l \in listeners : l.proc # p }
    /\ stopped' = [stopped EXCEPT ![p] = TRUE]
    /\ UNCHANGED << settingsSrc, SETTINGS, config, heap, app, tmp, tree, engine,
                    error, done, attempts >>

Next ==
    \E p \in Procs :
        \/ Import(p)
        \/ ConfigUpdate(p)
        \/ ConstructRoot(p)
        \/ ConstructPortfolio(p)
        \/ AttachPortfolio(p)
        \/ Mount(p)
        \/ EngineStart(p)
        \/ EnterBlock(p)
        \/ Interrupt(p)
        \/ BlockReturn(p)
        \/ Kill(p)

Spec == Init /\ [][Next]_vars


(***************************************************************************)
(* Properties                                                              *)
(***************************************************************************)

\* The composite of process p is "attached": app.portfolio is set.
Attached(p) == app[p] # NoRef /\ heap[p][app[p]].portfolio # NoRef

HoldsListener(p) == \E l \in listeners : l.proc = p

IsPrefix(s, t) == Len(s) <= Len(t) /\ \A i \in 1..Len(s) : s[i] = t[i]

Completed(p, s) == \E i \in 1..Len(done[p]) : done[p][i] = s

\* C1: whenever the handler tree has been mounted or the engine has been
\* started (so requests may be accepted), app.portfolio is already set.
C1_PortfolioSetBeforeServing ==
    \A p \in Procs :
        (\/ attempts[p]["mount"] > 0
         \/ Len(tree[p]) > 0
         \/ attempts[p]["start"] > 0
         \/ engine[p] # "STOPPED"
         \/ HoldsListener(p)) => Attached(p)

C1_Witness ==
    \E p \in Procs : engine[p] = "STARTED" /\ HoldsListener(p) /\ Attached(p)

\* C2: when SETTINGS lacks server.app_config, main() fails with KeyError at
\* the mount statement and engine.start() is never entered: no listener is
\* bound and the engine stays stopped.
C2_MissingKeyFailsBeforeBind ==
    \A p \in Procs :
        ~HasAppConfig(settingsSrc[p]) =>
            /\ attempts[p]["start"] = 0
            /\ engine[p] = "STOPPED"
            /\ ~HoldsListener(p)
            /\ Len(tree[p]) = 0
            /\ (attempts[p]["mount"] > 0 => pc[p] = "failed" /\ error[p] = "KeyError")

C2_Witness ==
    \E p \in Procs :
        ~HasAppConfig(settingsSrc[p]) /\ pc[p] = "failed" /\ error[p] = "KeyError"

\* C3: a failed engine.start() leaves main() with the error and
\* engine.block() is never entered; engine.block() is entered only after
\* engine.start() has completed without error.
C3_NoBlockAfterFailedStart ==
    \A p \in Procs :
        /\ error[p] = "BindError" =>
              pc[p] = "failed" /\ attempts[p]["block"] = 0 /\ ~Completed(p, "start")
        /\ (attempts[p]["block"] > 0 \/ pc[p] \in {"block", "blocking", "returned", "killed"}) =>
              Completed(p, "start") /\ error[p] = "None" /\ engine[p] # "STOPPED"

C3_Witness ==
    \E p \in Procs :
        error[p] = "BindError" /\ pc[p] = "failed" /\ attempts[p]["start"] = 1

\* C4: configure, mount and engine start are each entered at most once in a
\* run; an error ends the run in the failed state with a non-zero exit
\* status, and a failed run takes no further step.
C4_StateOk ==
    \A p \in Procs :
        /\ attempts[p]["config_update"] <= 1
        /\ attempts[p]["mount"] <= 1
        /\ attempts[p]["start"] <= 1
        /\ error[p] # "None" =>
              pc[p] = "failed" /\ exitCode[p] # ExitOk /\ exitCode[p] # NotExited
        /\ (attempts[p]["start"] > 0 /\ ~Completed(p, "start")) => pc[p] = "failed"
        /\ (attempts[p]["mount"] > 0 /\ ~Completed(p, "mount")) => pc[p] = "failed"

C4_StepOk ==
    \A p \in Procs :
        pc[p] = "failed" =>
            /\ pc'[p] = "failed"
            /\ attempts'[p] = attempts[p]
            /\ done'[p] = done[p]
            /\ exitCode'[p] = exitCode[p]

C4_NoRetry == []C4_StateOk /\ [][C4_StepOk]_vars

C4_Witness ==
    \E p \in Procs :
        /\ pc[p] = "failed" /\ error[p] = "BindError" /\ exitCode[p] = ExitSoftware
        /\ attempts[p]["config_update"] = 1
        /\ attempts[p]["mount"] = 1
        /\ attempts[p]["start"] = 1

\* C5: after a successful engine.start() the thread leaves the blocking wait
\* only when the process is stopped from outside; main() has returned only
\* in runs that were stopped.
C5_StateOk ==
    \A p \in Procs :
        /\ pc[p] = "returned" => stopped[p]
        /\ (pc[p] = "blocking" /\ ~stopped[p]) => engine[p] = "STARTED" /\ exitCode[p] = NotExited

C5_StepOk ==
    \A p \in Procs :
        /\ (pc[p] = "block" /\ error[p] = "None") => pc'[p] \in {"block", "blocking"}
        /\ pc[p] = "blocking" => (pc'[p] = "blocking" \/ stopped'[p])

C5_NeverReturns == []C5_StateOk /\ [][C5_StepOk]_vars

C5_Witness ==
    \E p \in Procs : pc[p] = "blocking" /\ ~stopped[p] /\ engine[p] = "STARTED"

\* C6: no two processes hold listeners on conflicting addresses, and an
\* engine.start() entered while another process holds the address fails
\* with a bind error without opening a listener.
C6_StateOk ==
    \A l1, l2 \in listeners : l1.proc # l2.proc => ~Conflicts(l1, l2)

C6_StepOk ==
    \A p \in Procs :
        (pc[p] = "start" /\ PortInUse(p) /\ pc'[p] # "start") =>
            /\ pc'[p] = "failed"
            /\ error'[p] = "BindError"
            /\ listeners' = listeners

C6_SecondBindFails == []C6_StateOk /\ [][C6_StepOk]_vars

C6_Witness ==
    \E p, q \in Procs :
        /\ p # q
        /\ pc[p] = "blocking" /\ engine[p] = "STARTED" /\ HoldsListener(p)
        /\ config[p].socket_port = config[q].socket_port
        /\ error[q] = "BindError"

\* C7: the handler tree is mounted at most once, and a run that has entered
\* engine.start() has mounted app at "/" exactly once.
C7_MountedOnce ==
    \A p \in Procs :
        /\ Len(tree[p]) <= 1
        /\ attempts[p]["start"] > 0 =>
              /\ Len(tree[p]) = 1
              /\ tree[p][1].script_name = "/"
              /\ tree[p][1].root = app[p]

C7_Witness ==
    \E p \in Procs : pc[p] = "returned" /\ Len(tree[p]) = 1

\* C8: once app.portfolio is set, every later state has it set.
C8_StepOk == \A p \in Procs : Attached(p) => Attached(p)'

C8_AttachIrreversible == [][C8_StepOk]_vars

C8_Witness ==
    \E p \in Procs : Attached(p) /\ pc[p] \in {"failed", "killed"}

\* C9: with a valid configuration, once line 12 has run, app is a Root whose
\* portfolio slot refers to a Portfolio object other than app itself.
C9_DistinctPortfolio ==
    \A p \in Procs :
        (HasAppConfig(settingsSrc[p]) /\ settingsSrc[p]["server"]["app_config"] = "sectioned" /\ attempts[p]["attach"] > 0) =>
            /\ app[p] # NoRef
            /\ heap[p][app[p]].cls = "Root"
            /\ heap[p][app[p]].portfolio # NoRef
            /\ heap[p][app[p]].portfolio # app[p]
            /\ heap[p][heap[p][app[p]].portfolio].cls = "Portfolio"

C9_Witness ==
    \E p \in Procs :
        /\ HasAppConfig(settingsSrc[p])
        /\ settingsSrc[p]["server"]["app_config"] = "sectioned"
        /\ pc[p] = "start"
        /\ heap[p][app[p]].portfolio # app[p]

\* C10: the steps complete in program order, none skipped: the completed
\* steps are always a prefix of Order, and a step is entered only when all
\* earlier steps have completed.
C10_StepsInOrder ==
    \A p \in Procs :
        /\ IsPrefix(done[p], Order)
        /\ \A i \in 1..Len(Order) :
              attempts[p][Order[i]] > 0 => Len(done[p]) >= i - 1

C10_Witness == \E p \in Procs : done[p] = Order

====
